---- MODULE Spec2Model ----
(***************************************************************************)
(* Timesheet_Server: the timesheet lifecycle (create, edit, delete,        *)
(* review, employee deletion) as a state machine over the MongoDB          *)
(* collections.  Every handler is cut at its awaits: one action per store  *)
(* operation, together with the synchronous code that runs before and      *)
(* after it.  Requests overlap freely between their store operations.      *)
(***************************************************************************)
EXTENDS Integers, Sequences, FiniteSets, Bags, TLC

\* Number of HTTP requests a behaviour may start.
MaxRequests == 3

(***************************************************************************)
(* Values                                                                  *)
(***************************************************************************)
\* JavaScript undefined, for string-typed fields and for text fields.
\* Texts are sequences of one-character strings, so that trim is computed.
NoValue == "undefined"
NoText == <<"undefined">>

Employees == {"e1", "e2"}
Admins == {"a1"}
AllUsers == Employees \cup Admins

Role(u) == IF u \in Admins THEN "admin" ELSE "employee"
UserName(u) == <<u>>

\* new Date(x) of something that is no date: Invalid Date.
InvalidDate == -1

\* Request values of `date`; two spellings of the same instant, two valid
\* days (as days since the epoch), and one string that is no date.
DateInputs == {"2024-03-01", "2024-03-01T00:00:00.000Z", "2024-03-02", "garbage"}

ParseDate(s) ==
  CASE s = "2024-03-01" -> 19783
    [] s = "2024-03-01T00:00:00.000Z" -> 19783
    [] s = "2024-03-02" -> 19784
    [] OTHER -> InvalidDate

Whitespace == {" "}

RECURSIVE TrimStart(_)
TrimStart(s) ==
  IF s # <<>> /\ Head(s) \in Whitespace THEN TrimStart(Tail(s)) ELSE s

RECURSIVE TrimEnd(_)
TrimEnd(s) ==
  IF s # <<>> /\ s[Len(s)] \in Whitespace
  THEN TrimEnd(SubSeq(s, 1, Len(s) - 1))
  ELSE s

\* Schema option trim: true, applied by the setter of a String path.
Trim(s) == IF s = NoText THEN NoText ELSE TrimEnd(TrimStart(s))

\* Schema option required: true on a String path.
Required(v) == v # NoText /\ v # <<>>

Statuses == {"pending", "accepted", "rejected"}

\* Schema option enum on status: undefined passes, it is not required.
EnumOk(v) == v = NoValue \/ v \in Statuses

\* Request bodies of Create and Update.  `status` is carried by the body
\* and read by neither handler.
Bodies ==
  { [plannedWork |-> <<"p">>, actualWork |-> <<"a">>, remarks |-> <<"r">>,
     status |-> NoValue],
    [plannedWork |-> <<" ", "q", " ">>, actualWork |-> <<"b">>,
     remarks |-> NoText, status |-> "accepted"],
    [plannedWork |-> NoText, actualWork |-> <<"a">>, remarks |-> NoText,
     status |-> NoValue],
    [plannedWork |-> <<"p">>, actualWork |-> <<" ">>, remarks |-> <<"r">>,
     status |-> "rejected"] }

\* Request bodies of Review.
ReviewBodies ==
  { [status |-> "accepted", adminComments |-> <<" ", "k", " ">>],
    [status |-> "rejected", adminComments |-> <<" ", "k", " ">>],
    [status |-> "pending", adminComments |-> NoText],
    [status |-> "bogus", adminComments |-> <<" ", "k", " ">>],
    [status |-> NoValue, adminComments |-> NoText] }

\* new Date() of the review; the instant itself is not modelled.
Now == "now"

VARIABLES
  users,     \* User collection: ids of the accounts that exist
  store,     \* Timesheet collection: _id -> document as stored
  nextId,    \* next fresh _id
  inflight,  \* bag of the requests between two of their store operations
  started,   \* number of requests started so far
  last,      \* the latest response sent, with the error it logged
  removed    \* accounts whose deletion was answered with success

vars == <<users, store, nextId, inflight, started, last, removed>>

(***************************************************************************)
(* Documents                                                               *)
(***************************************************************************)
\* NewTimesheet with the body's status passed on to the constructor.
NewTimesheet_BodyStatus(u, d, body) ==
  [employee |-> u,
   employeeName |-> UserName(u),
   date |-> d,
   plannedWork |-> Trim(body.plannedWork),
   actualWork |-> Trim(body.actualWork),
   remarks |-> IF body.remarks = NoText THEN <<>> ELSE Trim(body.remarks),
   status |-> IF body.status = NoValue THEN "pending" ELSE body.status,
   adminComments |-> <<>>,
   reviewedBy |-> NoValue,
   reviewedAt |-> NoValue]

\* new Timesheet({...}) of Create: setters trim the texts, defaults fill
\* remarks, status and adminComments; body.status is not passed in.
NewTimesheet(u, d, body) ==
  [employee |-> u,
   employeeName |-> UserName(u),
   date |-> d,
   plannedWork |-> Trim(body.plannedWork),
   actualWork |-> Trim(body.actualWork),
   remarks |-> IF body.remarks = NoText THEN <<>> ELSE Trim(body.remarks),
   status |-> "pending",
   adminComments |-> <<>>,
   reviewedBy |-> NoValue,
   reviewedAt |-> NoValue]

\* A document as a query returns it: paths missing in the store get their
\* schema defaults.
Hydrate(doc) ==
  [doc EXCEPT !.remarks = IF @ = NoText THEN <<>> ELSE @,
              !.status = IF @ = NoValue THEN "pending" ELSE @,
              !.adminComments = IF @ = NoText THEN <<>> ELSE @]

\* Validation run by save(): the required texts and the status enum.
Valid(doc) ==
  /\ Required(doc.plannedWork)
  /\ Required(doc.actualWork)
  /\ EnumOk(doc.status)

\* save() of a loaded document writes the paths that were assigned a value
\* other than the loaded one, and the paths that got their default on
\* loading; it writes no other path ($set / $unset of those paths).  `raw`
\* is the document as it was stored when it was read.
Paths ==
  {"plannedWork", "actualWork", "remarks", "status", "adminComments",
   "reviewedBy", "reviewedAt"}

Modified(raw, doc) ==
  {p \in Paths : doc[p] # Hydrate(raw)[p] \/ raw[p] # Hydrate(raw)[p]}

WriteModified(stored, raw, doc) ==
  [f \in DOMAIN stored |->
     IF f \in Modified(raw, doc) THEN doc[f] ELSE stored[f]]

\* The unique index {employee: 1, date: 1}.
HasKey(st, u, d) ==
  \E id \in DOMAIN st : st[id].employee = u /\ st[id].date = d

UniqueIndex(st) ==
  \A i, j \in DOMAIN st :
    (st[i].employee = st[j].employee /\ st[i].date = st[j].date) => i = j

(***************************************************************************)
(* Requests and responses                                                  *)
(***************************************************************************)
\* middleware auth / adminAuth: the token names an existing account.
Auth(u) == u \in users
AdminAuth(u) == u \in users /\ Role(u) = "admin"

NewReq(op, u, id, d, target) ==
  [op |-> op, pc |-> "start", user |-> u, id |-> id, date |-> d,
   target |-> target, loaded |-> <<>>]

NoResponse ==
  [op |-> "none", user |-> NoValue, id |-> 0, date |-> 0,
   target |-> NoValue, code |-> 0, msg |-> "", err |-> "none"]

\* The requests in flight without (one copy of) r; a request that has just
\* arrived is not among them.
Without(r) ==
  IF BagIn(r, inflight) THEN inflight (-) SetToBag({r}) ELSE inflight

\* res.status(code).json({message}) ends the request; err is what the
\* catch block logged.
Reply(r, id, code, msg, err) ==
  /\ inflight' = Without(r)
  /\ last' = [op |-> r.op, user |-> r.user, id |-> id,
              date |-> r.date, target |-> r.target, code |-> code,
              msg |-> msg, err |-> err]

\* The handler goes on to its next store operation.
Proceed(r, pc, loaded) ==
  /\ inflight' = Without(r) (+) SetToBag({[r EXCEPT !.pc = pc, !.loaded = loaded]})
  /\ UNCHANGED last

Init ==
  /\ users = AllUsers
  /\ store = <<>>
  /\ nextId = 1
  /\ inflight = EmptyBag
  /\ started = 0
  /\ last = NoResponse
  /\ removed = {}

(***************************************************************************)
(* POST /api/timesheets                                                    *)
(***************************************************************************)
\* CreateFind without the check of findOne's result.
CreateFind_NoCheck(u, ds, ok) ==
  /\ started < MaxRequests
  /\ Auth(u)
  /\ started' = started + 1
  /\ UNCHANGED <<users, store, nextId, removed>>
  /\ LET d == ParseDate(ds)
         r == NewReq("create", u, 0, d, NoValue)
     IN IF d = InvalidDate
        THEN Reply(r, 0, 500, "Server error", "CastError")
        ELSE IF ~ok
        THEN Reply(r, 0, 500, "Server error", "StoreFailure")
        ELSE Proceed(r, "save", <<>>)

\* findOne({employee, date}) and the check of its result.  `ok` is whether
\* the store operation went through.
CreateFind(u, ds, ok) ==
  /\ started < MaxRequests
  /\ Auth(u)
  /\ started' = started + 1
  /\ UNCHANGED <<users, store, nextId, removed>>
  /\ LET d == ParseDate(ds)
         r == NewReq("create", u, 0, d, NoValue)
     IN IF d = InvalidDate
        THEN Reply(r, 0, 500, "Server error", "CastError")
        ELSE IF ~ok
        THEN Reply(r, 0, 500, "Server error", "StoreFailure")
        ELSE IF HasKey(store, u, d)
        THEN Reply(r, 0, 400, "Timesheet already exists for this date", "none")
        ELSE Proceed(r, "save", <<>>)

\* CreateSave on a collection without the unique index.
CreateSave_NoIndex(r, body, ok) ==
  /\ BagIn(r, inflight)
  /\ r.op = "create" /\ r.pc = "save"
  /\ UNCHANGED <<users, started, removed>>
  /\ LET doc == NewTimesheet(r.user, r.date, body)
     IN IF ~Valid(doc)
        THEN /\ Reply(r, 0, 500, "Server error", "ValidationError")
             /\ UNCHANGED <<store, nextId>>
        ELSE IF ~ok
        THEN /\ Reply(r, 0, 500, "Server error", "StoreFailure")
             /\ UNCHANGED <<store, nextId>>
        ELSE /\ store' = (nextId :> doc) @@ store
             /\ nextId' = nextId + 1
             /\ Reply(r, nextId, 201, "", "none")

\* new Timesheet(...), save() and the response.
CreateSave(r, body, ok) ==
  /\ BagIn(r, inflight)
  /\ r.op = "create" /\ r.pc = "save"
  /\ UNCHANGED <<users, started, removed>>
  /\ LET doc == NewTimesheet(r.user, r.date, body)
     IN IF ~Valid(doc)
        THEN /\ Reply(r, 0, 500, "Server error", "ValidationError")
             /\ UNCHANGED <<store, nextId>>
        ELSE IF ~ok
        THEN /\ Reply(r, 0, 500, "Server error", "StoreFailure")
             /\ UNCHANGED <<store, nextId>>
        ELSE IF HasKey(store, r.user, r.date)
        THEN /\ Reply(r, 0, 500, "Server error", "E11000")
             /\ UNCHANGED <<store, nextId>>
        ELSE /\ store' = (nextId :> doc) @@ store
             /\ nextId' = nextId + 1
             /\ Reply(r, nextId, 201, "", "none")

(***************************************************************************)
(* PUT /api/timesheets/:id                                                 *)
(***************************************************************************)
\* UpdateFind without the status check.
UpdateFind_NoStatusCheck(u, id, ok) ==
  /\ started < MaxRequests
  /\ Auth(u)
  /\ started' = started + 1
  /\ UNCHANGED <<users, store, nextId, removed>>
  /\ LET r == NewReq("update", u, id, 0, NoValue)
     IN IF ~ok
        THEN Reply(r, id, 500, "Server error", "StoreFailure")
        ELSE IF ~(id \in DOMAIN store /\ store[id].employee = u)
        THEN Reply(r, id, 404, "Timesheet not found", "none")
        ELSE Proceed(r, "save", <<store[id]>>)

\* findOne({_id, employee}) and the two checks on its result.
UpdateFind(u, id, ok) ==
  /\ started < MaxRequests
  /\ Auth(u)
  /\ started' = started + 1
  /\ UNCHANGED <<users, store, nextId, removed>>
  /\ LET r == NewReq("update", u, id, 0, NoValue)
     IN IF ~ok
        THEN Reply(r, id, 500, "Server error", "StoreFailure")
        ELSE IF ~(id \in DOMAIN store /\ store[id].employee = u)
        THEN Reply(r, id, 404, "Timesheet not found", "none")
        ELSE IF Hydrate(store[id]).status \notin {"pending", "rejected"}
        THEN Reply(r, id, 400,
                   "Only pending or rejected timesheets can be edited", "none")
        ELSE Proceed(r, "save", <<store[id]>>)

\* UpdateSave that also moves the timesheet to the following day.
UpdateSave_Redate(r, body, ok) ==
  /\ BagIn(r, inflight)
  /\ r.op = "update" /\ r.pc = "save"
  /\ UNCHANGED <<users, nextId, started, removed>>
  /\ LET raw == r.loaded[1]
         doc == [Hydrate(raw) EXCEPT !.plannedWork = Trim(body.plannedWork),
                                     !.actualWork = Trim(body.actualWork),
                                     !.remarks = Trim(body.remarks)]
     IN IF ~Valid(doc)
        THEN /\ Reply(r, r.id, 500, "Server error", "ValidationError")
             /\ UNCHANGED store
        ELSE IF ~ok
        THEN /\ Reply(r, r.id, 500, "Server error", "StoreFailure")
             /\ UNCHANGED store
        ELSE IF r.id \notin DOMAIN store
        THEN /\ Reply(r, r.id, 500, "Server error", "DocumentNotFoundError")
             /\ UNCHANGED store
        ELSE /\ store' = [store EXCEPT
                            ![r.id] = [WriteModified(store[r.id], raw, doc)
                                       EXCEPT !.date = @ + 1]]
             /\ Reply(r, r.id, 200, "", "none")

\* The three assignments, save() and the response.
UpdateSave(r, body, ok) ==
  /\ BagIn(r, inflight)
  /\ r.op = "update" /\ r.pc = "save"
  /\ UNCHANGED <<users, nextId, started, removed>>
  /\ LET raw == r.loaded[1]
         doc == [Hydrate(raw) EXCEPT !.plannedWork = Trim(body.plannedWork),
                                     !.actualWork = Trim(body.actualWork),
                                     !.remarks = Trim(body.remarks)]
     IN IF ~Valid(doc)
        THEN /\ Reply(r, r.id, 500, "Server error", "ValidationError")
             /\ UNCHANGED store
        ELSE IF ~ok
        THEN /\ Reply(r, r.id, 500, "Server error", "StoreFailure")
             /\ UNCHANGED store
        ELSE IF r.id \notin DOMAIN store
        THEN /\ Reply(r, r.id, 500, "Server error", "DocumentNotFoundError")
             /\ UNCHANGED store
        ELSE /\ store' = [store EXCEPT
                            ![r.id] = WriteModified(store[r.id], raw, doc)]
             /\ Reply(r, r.id, 200, "", "none")

(***************************************************************************)
(* DELETE /api/timesheets/:id                                              *)
(***************************************************************************)
\* DeleteFind with findOne({_id}): the owner is not part of the query.
DeleteFind_AnyOwner(u, id, ok) ==
  /\ started < MaxRequests
  /\ Auth(u)
  /\ started' = started + 1
  /\ UNCHANGED <<users, store, nextId, removed>>
  /\ LET r == NewReq("delete", u, id, 0, NoValue)
     IN IF ~ok
        THEN Reply(r, id, 500, "Server error", "StoreFailure")
        ELSE IF id \notin DOMAIN store
        THEN Reply(r, id, 404, "Timesheet not found", "none")
        ELSE IF Hydrate(store[id]).status # "pending"
        THEN Reply(r, id, 400, "Only pending timesheets can be deleted", "none")
        ELSE Proceed(r, "remove", <<>>)

\* findOne({_id, employee}) and the two checks on its result.
DeleteFind(u, id, ok) ==
  /\ started < MaxRequests
  /\ Auth(u)
  /\ started' = started + 1
  /\ UNCHANGED <<users, store, nextId, removed>>
  /\ LET r == NewReq("delete", u, id, 0, NoValue)
     IN IF ~ok
        THEN Reply(r, id, 500, "Server error", "StoreFailure")
        ELSE IF ~(id \in DOMAIN store /\ store[id].employee = u)
        THEN Reply(r, id, 404, "Timesheet not found", "none")
        ELSE IF Hydrate(store[id]).status # "pending"
        THEN Reply(r, id, 400, "Only pending timesheets can be deleted", "none")
        ELSE Proceed(r, "remove", <<>>)

\* DeleteRemove answering without the findByIdAndDelete.
DeleteRemove_Keep(r, ok) ==
  /\ BagIn(r, inflight)
  /\ r.op = "delete" /\ r.pc = "remove"
  /\ UNCHANGED <<users, nextId, started, removed, store>>
  /\ IF ~ok
     THEN Reply(r, r.id, 500, "Server error", "StoreFailure")
     ELSE Reply(r, r.id, 200, "Timesheet deleted successfully", "none")

\* findByIdAndDelete(id) and the response.
DeleteRemove(r, ok) ==
  /\ BagIn(r, inflight)
  /\ r.op = "delete" /\ r.pc = "remove"
  /\ UNCHANGED <<users, nextId, started, removed>>
  /\ IF ~ok
     THEN /\ Reply(r, r.id, 500, "Server error", "StoreFailure")
          /\ UNCHANGED store
     ELSE /\ store' = [i \in DOMAIN store \ {r.id} |-> store[i]]
          /\ Reply(r, r.id, 200, "Timesheet deleted successfully", "none")

(***************************************************************************)
(* PUT /api/admin/timesheets/:id/review                                    *)
(***************************************************************************)
\* findById(id) and the check of its result.
ReviewFind(a, id, ok) ==
  /\ started < MaxRequests
  /\ AdminAuth(a)
  /\ started' = started + 1
  /\ UNCHANGED <<users, store, nextId, removed>>
  /\ LET r == NewReq("review", a, id, 0, NoValue)
     IN IF ~ok
        THEN Reply(r, id, 500, "Server error", "StoreFailure")
        ELSE IF id \notin DOMAIN store
        THEN Reply(r, id, 404, "Timesheet not found", "none")
        ELSE Proceed(r, "save", <<store[id]>>)

\* ReviewSave with a transition guard: an accepted timesheet is final.
ReviewSave_Guarded(r, body, ok) ==
  /\ BagIn(r, inflight)
  /\ r.op = "review" /\ r.pc = "save"
  /\ UNCHANGED <<users, nextId, started, removed>>
  /\ LET raw == r.loaded[1]
         doc == [Hydrate(raw) EXCEPT !.status = body.status,
                                     !.adminComments = Trim(body.adminComments),
                                     !.reviewedBy = r.user,
                                     !.reviewedAt = Now]
         delta == Modified(raw, doc) \cup {"reviewedAt"}
     IN IF Hydrate(raw).status = "accepted"
        THEN /\ Reply(r, r.id, 400, "Timesheet already accepted", "none")
             /\ UNCHANGED store
        ELSE IF ~Valid(doc)
        THEN /\ Reply(r, r.id, 500, "Server error", "ValidationError")
             /\ UNCHANGED store
        ELSE IF ~ok
        THEN /\ Reply(r, r.id, 500, "Server error", "StoreFailure")
             /\ UNCHANGED store
        ELSE IF r.id \notin DOMAIN store
        THEN /\ Reply(r, r.id, 500, "Server error", "DocumentNotFoundError")
             /\ UNCHANGED store
        ELSE /\ store' = [store EXCEPT ![r.id] =
                            [f \in DOMAIN @ |->
                               IF f \in delta THEN doc[f] ELSE @[f]]]
             /\ Reply(r, r.id, 200, "", "none")

\* The four assignments, save(), the re-read for the response body (it
\* changes nothing) and the response.
ReviewSave(r, body, ok) ==
  /\ BagIn(r, inflight)
  /\ r.op = "review" /\ r.pc = "save"
  /\ UNCHANGED <<users, nextId, started, removed>>
  /\ LET raw == r.loaded[1]
         doc == [Hydrate(raw) EXCEPT !.status = body.status,
                                     !.adminComments = Trim(body.adminComments),
                                     !.reviewedBy = r.user,
                                     !.reviewedAt = Now]
         \* new Date() is a new instant: reviewedAt is always modified
         delta == Modified(raw, doc) \cup {"reviewedAt"}
     IN IF ~Valid(doc)
        THEN /\ Reply(r, r.id, 500, "Server error", "ValidationError")
             /\ UNCHANGED store
        ELSE IF ~ok
        THEN /\ Reply(r, r.id, 500, "Server error", "StoreFailure")
             /\ UNCHANGED store
        ELSE IF r.id \notin DOMAIN store
        THEN /\ Reply(r, r.id, 500, "Server error", "DocumentNotFoundError")
             /\ UNCHANGED store
        ELSE /\ store' = [store EXCEPT ![r.id] =
                            [f \in DOMAIN @ |->
                               IF f \in delta THEN doc[f] ELSE @[f]]]
             /\ Reply(r, r.id, 200, "", "none")

(***************************************************************************)
(* DELETE /api/admin/employees/:id                                         *)
(***************************************************************************)
\* User.findById(id) and the check of its result.
DeleteEmployeeFind(a, target, ok) ==
  /\ started < MaxRequests
  /\ AdminAuth(a)
  /\ started' = started + 1
  /\ UNCHANGED <<users, store, nextId, removed>>
  /\ LET r == NewReq("deleteEmployee", a, 0, 0, target)
     IN IF ~ok
        THEN Reply(r, 0, 500, "Server error", "StoreFailure")
        ELSE IF target \notin users
        THEN Reply(r, 0, 404, "Employee not found", "none")
        ELSE Proceed(r, "deleteUser", <<>>)

\* User.findByIdAndDelete(id).
DeleteEmployeeUser(r, ok) ==
  /\ BagIn(r, inflight)
  /\ r.op = "deleteEmployee" /\ r.pc = "deleteUser"
  /\ UNCHANGED <<store, nextId, started, removed>>
  /\ IF ~ok
     THEN /\ Reply(r, 0, 500, "Server error", "StoreFailure")
          /\ UNCHANGED users
     ELSE /\ users' = users \ {r.target}
          /\ Proceed(r, "deleteMany", <<>>)

\* DeleteEmployeeSheets with a compensation: a failed deleteMany puts the
\* account back.
DeleteEmployeeSheets_Compensate(r, ok) ==
  /\ BagIn(r, inflight)
  /\ r.op = "deleteEmployee" /\ r.pc = "deleteMany"
  /\ UNCHANGED <<nextId, started>>
  /\ IF ~ok
     THEN /\ Reply(r, 0, 500, "Server error", "StoreFailure")
          /\ users' = users \cup {r.target}
          /\ UNCHANGED <<store, removed>>
     ELSE /\ removed' = removed \cup {r.target}
          /\ store' = [i \in {j \in DOMAIN store :
                               store[j].employee # r.target} |-> store[i]]
          /\ Reply(r, 0, 200, "Employee deleted successfully", "none")
          /\ UNCHANGED users

\* Timesheet.deleteMany({employee: id}) and the response.
DeleteEmployeeSheets(r, ok) ==
  /\ BagIn(r, inflight)
  /\ r.op = "deleteEmployee" /\ r.pc = "deleteMany"
  /\ UNCHANGED <<users, nextId, started>>
  /\ IF ~ok
     THEN /\ Reply(r, 0, 500, "Server error", "StoreFailure")
          /\ UNCHANGED <<store, removed>>
     ELSE /\ removed' = removed \cup {r.target}
          /\ store' = [i \in {j \in DOMAIN store :
                               store[j].employee # r.target} |-> store[i]]
          /\ Reply(r, 0, 200, "Employee deleted successfully", "none")

(***************************************************************************)
(* Specification                                                           *)
(***************************************************************************)
\* Ids a request may name: every id handed out so far, and 0, which is the
\* id of no document.
Ids == 0 .. (nextId - 1)

Next ==
  \/ \E u \in Employees, ds \in DateInputs, ok \in BOOLEAN : CreateFind(u, ds, ok)
  \/ \E r \in BagToSet(inflight), b \in Bodies, ok \in BOOLEAN : CreateSave(r, b, ok)
  \/ \E u \in Employees, id \in Ids, ok \in BOOLEAN : UpdateFind(u, id, ok)
  \/ \E r \in BagToSet(inflight), b \in Bodies, ok \in BOOLEAN : UpdateSave(r, b, ok)
  \/ \E u \in Employees, id \in Ids, ok \in BOOLEAN : DeleteFind(u, id, ok)
  \/ \E r \in BagToSet(inflight), ok \in BOOLEAN : DeleteRemove(r, ok)
  \/ \E a \in Admins, id \in Ids, ok \in BOOLEAN : ReviewFind(a, id, ok)
  \/ \E r \in BagToSet(inflight), b \in ReviewBodies, ok \in BOOLEAN : ReviewSave(r, b, ok)
  \/ \E a \in Admins, t \in Employees, ok \in BOOLEAN :
       DeleteEmployeeFind(a, t, ok)
  \/ \E r \in BagToSet(inflight), ok \in BOOLEAN : DeleteEmployeeUser(r, ok)
  \/ \E r \in BagToSet(inflight), ok \in BOOLEAN : DeleteEmployeeSheets(r, ok)

Spec == Init /\ [][Next]_vars

(***************************************************************************)
(* Read paths: queries                                                     *)
(***************************************************************************)
\* A query-string value counts as supplied when it is truthy.
Truthy(v) == v # NoValue /\ v # ""

\* RegExp(search, 'i') on a text: the search token occurs in it, letter
\* case aside.
Lower(c) == IF c = "P" THEN "p" ELSE c

RegexMatch(text, search) ==
  text # NoText /\ \E i \in 1 .. Len(text) : Lower(text[i]) = Lower(search)

\* The filter object a handler hands to Timesheet.find; NoValue in
\* employee, status or search is a key the filter does not have, and
\* ranged says whether it has the key date.
Filter(employee, status, ranged, lo, hi, search) ==
  [employee |-> employee, status |-> status, ranged |-> ranged,
   lo |-> lo, hi |-> hi, search |-> search]

\* InRange with the upper bound exclusive ($lt).
InRange_Exclusive(d, f) == f.ranged => (f.lo <= d /\ d < f.hi)

\* date: {$gte: lo, $lte: hi}.
InRange(d, f) == f.ranged => (f.lo <= d /\ d <= f.hi)

\* MongoDB matches the filter against the document as stored: a path the
\* document lacks equals no value.
Matches(doc, f) ==
  /\ f.employee # NoValue => doc.employee = f.employee
  /\ f.status # NoValue => doc.status = f.status
  /\ InRange(doc.date, f)
  /\ f.search # NoValue =>
       \/ RegexMatch(doc.employeeName, f.search)
       \/ RegexMatch(doc.plannedWork, f.search)
       \/ RegexMatch(doc.actualWork, f.search)

\* A date in a filter that is Invalid Date makes find throw a CastError.
Castable(f) == f.ranged => (f.lo # InvalidDate /\ f.hi # InvalidDate)

Find(st, f) == {id \in DOMAIN st : Matches(st[id], f)}

\* sort({date: dir}): the ids of S in every order the sort may give them
\* (documents of equal date come in any order); dir is -1 or 1.
Sorted(st, S, dir) ==
  {s \in [1 .. Cardinality(S) -> S] :
     /\ \A i, j \in DOMAIN s : s[i] = s[j] => i = j
     /\ \A i, j \in DOMAIN s :
          i < j => dir * st[s[i]].date <= dir * st[s[j]].date}

\* The date clause common to the list handlers.
RangeOf(q) == Truthy(q.startDate) /\ Truthy(q.endDate)

\* status / employee clause: skipped when absent, empty or 'all'.
ClauseOf(v) == IF Truthy(v) /\ v # "all" THEN v ELSE NoValue

(***************************************************************************)
(* Read paths: rendering                                                   *)
(***************************************************************************)
\* Date.prototype.toISOString() and its part before the 'T'.
IsoString(d) ==
  CASE d = 19783 -> "2024-03-01T00:00:00.000Z"
    [] d = 19784 -> "2024-03-02T00:00:00.000Z"
    [] OTHER -> "Invalid Date"

DayString(d) ==
  CASE d = 19783 -> "2024-03-01"
    [] d = 19784 -> "2024-03-02"
    [] OTHER -> "Invalid Date"

\* The fields of the joined account, populate('employee', ...); no account,
\* no object.
UserField(u, f) == IF u \in users THEN <<u, f>> ELSE <<>>

\* A found document as the response carries it.
AsJson(st, id) ==
  [_id |-> id] @@ [Hydrate(st[id]) EXCEPT !.date = <<IsoString(@)>>,
                                         !.status = <<@>>]

\* The object the admin CSV handler maps a document to.
AsCsvData(st, id) ==
  LET t == Hydrate(st[id])
  IN [employeeName |-> t.employeeName,
      employeeEmail |-> UserField(t.employee, "email"),
      employeeId |-> UserField(t.employee, "employeeId"),
      department |-> UserField(t.employee, "department"),
      date |-> <<DayString(t.date)>>,
      plannedWork |-> t.plannedWork,
      actualWork |-> t.actualWork,
      remarks |-> t.remarks,
      status |-> <<t.status>>,
      adminComments |-> t.adminComments]

ShortFields ==
  <<"employeeName", "date", "plannedWork", "actualWork", "remarks",
    "status", "adminComments">>

FullFields ==
  <<"employeeName", "employeeEmail", "employeeId", "department", "date",
    "plannedWork", "actualWork", "remarks", "status", "adminComments">>

\* new Parser({fields}).parse(data): the header, then one row per element
\* of data with the element's value of each field.
ParseCsv(fields, data) ==
  <<fields>> \o [i \in 1 .. Len(data) |->
                   [k \in 1 .. Len(fields) |-> data[i][fields[k]]]]

\* The response of a read: the ids it found, in order, and what it sent.
Respond(op, u, q, code, msg, err, found, body) ==
  /\ last' = [op |-> op, user |-> u, id |-> 0, date |-> 0,
              target |-> NoValue, code |-> code, msg |-> msg, err |-> err,
              query |-> q, found |-> found, body |-> body]
  /\ UNCHANGED <<users, store, nextId, inflight, started, removed>>

Failed(op, u, q, code, msg, err) ==
  Respond(op, u, q, code, msg, err, <<>>, <<>>)

(***************************************************************************)
(* Read paths: handlers.  Each has one store operation, find.              *)
(***************************************************************************)
\* Query strings of GET /api/timesheets; `employee` is a parameter the
\* handler does not read.
ListQueries ==
  { [employee |-> NoValue, status |-> NoValue,
     startDate |-> NoValue, endDate |-> NoValue],
    [employee |-> "e2", status |-> "pending",
     startDate |-> NoValue, endDate |-> NoValue],
    [employee |-> "e1", status |-> "all",
     startDate |-> "2024-03-01", endDate |-> "2024-03-01"],
    [employee |-> NoValue, status |-> "accepted",
     startDate |-> "2024-03-01", endDate |-> "2024-03-02"],
    [employee |-> NoValue, status |-> "pending",
     startDate |-> "2024-03-02", endDate |-> "2024-03-02"],
    [employee |-> NoValue, status |-> "",
     startDate |-> "2024-03-02", endDate |-> "2024-03-01"],
    [employee |-> NoValue, status |-> NoValue,
     startDate |-> "2024-03-02", endDate |-> NoValue],
    [employee |-> NoValue, status |-> "rejected",
     startDate |-> "", endDate |-> "2024-03-01"],
    [employee |-> NoValue, status |-> NoValue,
     startDate |-> "garbage", endDate |-> NoValue],
    [employee |-> NoValue, status |-> NoValue,
     startDate |-> "garbage", endDate |-> "2024-03-02"] }

\* Query strings of GET /api/admin/timesheets.
AdminQueries ==
  { [employee |-> NoValue, status |-> NoValue,
     startDate |-> NoValue, endDate |-> NoValue, search |-> NoValue],
    [employee |-> "all", status |-> "all",
     startDate |-> "2024-03-01", endDate |-> "2024-03-01", search |-> NoValue],
    [employee |-> "e1", status |-> "pending",
     startDate |-> "2024-03-01", endDate |-> "2024-03-02", search |-> NoValue],
    [employee |-> "e1", status |-> NoValue,
     startDate |-> "2024-03-02", endDate |-> "2024-03-02", search |-> NoValue],
    [employee |-> "e2", status |-> NoValue,
     startDate |-> "2024-03-02", endDate |-> NoValue, search |-> NoValue],
    [employee |-> NoValue, status |-> "accepted",
     startDate |-> "", endDate |-> "2024-03-01", search |-> "e1"],
    [employee |-> NoValue, status |-> NoValue,
     startDate |-> NoValue, endDate |-> NoValue, search |-> "P"],
    [employee |-> NoValue, status |-> NoValue,
     startDate |-> "2024-03-01", endDate |-> "garbage", search |-> NoValue] }

\* Query strings of GET /api/admin/timesheets/export/csv.
CsvQueries ==
  { [employee |-> NoValue, startDate |-> NoValue, endDate |-> NoValue,
     date |-> NoValue, month |-> NoValue],
    [employee |-> "e1", startDate |-> NoValue, endDate |-> NoValue,
     date |-> NoValue, month |-> NoValue],
    [employee |-> NoValue, startDate |-> "2024-03-02",
     endDate |-> "2024-03-02", date |-> NoValue, month |-> NoValue],
    [employee |-> NoValue, startDate |-> NoValue, endDate |-> NoValue,
     date |-> "2024-03-01", month |-> NoValue],
    [employee |-> "e2", startDate |-> NoValue, endDate |-> NoValue,
     date |-> NoValue, month |-> "2024-02"] }

\* Query strings of GET /api/admin/timesheets/export.
ExportQueries ==
  { [employeeId |-> "e1", format |-> "csv",
     startDate |-> NoValue, endDate |-> NoValue],
    [employeeId |-> "e1", format |-> "csv",
     startDate |-> "2024-03-02", endDate |-> "2024-03-02"],
    [employeeId |-> "e2", format |-> "pdf",
     startDate |-> NoValue, endDate |-> NoValue],
    [employeeId |-> "e1", format |-> "xml",
     startDate |-> NoValue, endDate |-> NoValue],
    [employeeId |-> NoValue, format |-> "csv",
     startDate |-> NoValue, endDate |-> NoValue],
    [employeeId |-> "e1", format |-> NoValue,
     startDate |-> NoValue, endDate |-> NoValue],
    [employeeId |-> "e1", format |-> "csv",
     startDate |-> "garbage", endDate |-> "2024-03-01"] }

\* The date clause of a list query: new Date of both bounds.
DateClause(employee, status, q, search) ==
  IF RangeOf(q)
  THEN Filter(employee, status, TRUE,
              ParseDate(q.startDate), ParseDate(q.endDate), search)
  ELSE Filter(employee, status, FALSE, 0, 0, search)

\* `value || alt` on a text.
OrElse(v, alt) == IF v = <<>> \/ v = NoText THEN alt ELSE v

\* The lines a PDF handler writes for one document.
PdfEntry(doc, labels) ==
  [k \in 1 .. Len(labels) |->
     IF labels[k] \in {"remarks", "adminComments"}
     THEN OrElse(doc[labels[k]], <<"-">>)
     ELSE doc[labels[k]]]

\* GET /api/timesheets with a filter built without the employee key.
List_Unscoped(u, q, ok) ==
  /\ Auth(u)
  /\ LET f == DateClause(NoValue, ClauseOf(q.status), q, NoValue)
     IN IF ~Castable(f)
        THEN Failed("list", u, q, 500, "Server error", "CastError")
        ELSE IF ~ok
        THEN Failed("list", u, q, 500, "Server error", "StoreFailure")
        ELSE \E s \in Sorted(store, Find(store, f), -1) :
               Respond("list", u, q, 200, "", "none", s,
                       [i \in DOMAIN s |-> AsJson(store, s[i])])

\* GET /api/timesheets.
List(u, q, ok) ==
  /\ Auth(u)
  /\ LET f == DateClause(u, ClauseOf(q.status), q, NoValue)
     IN IF ~Castable(f)
        THEN Failed("list", u, q, 500, "Server error", "CastError")
        ELSE IF ~ok
        THEN Failed("list", u, q, 500, "Server error", "StoreFailure")
        ELSE \E s \in Sorted(store, Find(store, f), -1) :
               Respond("list", u, q, 200, "", "none", s,
                       [i \in DOMAIN s |-> AsJson(store, s[i])])

\* GET /api/timesheets/export/csv.
ExportCsv(u, ok) ==
  /\ Auth(u)
  /\ LET f == Filter(u, NoValue, FALSE, 0, 0, NoValue)
     IN IF ~ok
        THEN Failed("exportCsv", u, NoValue, 500, "Failed to export CSV",
                    "StoreFailure")
        ELSE \E s \in Sorted(store, Find(store, f), -1) :
               Respond("exportCsv", u, NoValue, 200, "", "none", s,
                       ParseCsv(ShortFields,
                                [i \in DOMAIN s |-> AsJson(store, s[i])]))

\* GET /api/timesheets/export/pdf.
ExportPdf(u, ok) ==
  /\ Auth(u)
  /\ LET f == Filter(u, NoValue, FALSE, 0, 0, NoValue)
         labels == <<"employeeName", "date", "plannedWork", "actualWork",
                     "remarks", "status">>
     IN IF ~ok
        THEN Failed("exportPdf", u, NoValue, 500, "Failed to generate PDF",
                    "StoreFailure")
        ELSE \E s \in Sorted(store, Find(store, f), -1) :
               Respond("exportPdf", u, NoValue, 200, "", "none", s,
                       [i \in DOMAIN s |->
                          PdfEntry(AsJson(store, s[i]), labels)])

\* GET /api/timesheets/download-pdf.
DownloadPdf(u, ok) ==
  /\ Auth(u)
  /\ LET f == Filter(u, NoValue, FALSE, 0, 0, NoValue)
         labels == <<"date", "plannedWork", "actualWork", "remarks",
                     "status", "adminComments">>
     IN IF ~ok
        THEN Failed("downloadPdf", u, NoValue, 500, "PDF generation failed",
                    "StoreFailure")
        ELSE IF Find(store, f) = {}
        THEN Failed("downloadPdf", u, NoValue, 404, "No timesheets found.",
                    "none")
        ELSE \E s \in Sorted(store, Find(store, f), 1) :
               Respond("downloadPdf", u, NoValue, 200, "", "none", s,
                       [i \in DOMAIN s |->
                          PdfEntry(AsJson(store, s[i]), labels)])

\* GET /api/admin/timesheets.
AdminList(a, q, ok) ==
  /\ AdminAuth(a)
  /\ LET f == DateClause(ClauseOf(q.employee), ClauseOf(q.status), q,
                         IF Truthy(q.search) THEN q.search ELSE NoValue)
     IN IF ~Castable(f)
        THEN Failed("adminList", a, q, 500, "Server error", "CastError")
        ELSE IF ~ok
        THEN Failed("adminList", a, q, 500, "Server error", "StoreFailure")
        ELSE \E s \in Sorted(store, Find(store, f), -1) :
               Respond("adminList", a, q, 200, "", "none", s,
                       [i \in DOMAIN s |-> AsJson(store, s[i])])

\* GET /api/admin/timesheets/export/csv: the handler registered first on
\* the path.  It sends the response and does not call next(), so the two
\* handlers registered later on the same path never run.
AdminExportCsv(a, q, ok) ==
  /\ AdminAuth(a)
  /\ LET f == Filter(NoValue, NoValue, FALSE, 0, 0, NoValue)
     IN IF ~ok
        THEN Failed("adminExportCsv", a, q, 500, "Server error",
                    "StoreFailure")
        ELSE \E s \in Sorted(store, Find(store, f), -1) :
               Respond("adminExportCsv", a, q, 200, "", "none", s,
                       ParseCsv(FullFields,
                                [i \in DOMAIN s |-> AsCsvData(store, s[i])]))

\* GET /api/admin/timesheets/export.
AdminExport(a, q, ok) ==
  /\ AdminAuth(a)
  /\ LET f == DateClause(q.employeeId, NoValue, q, NoValue)
         labels == <<"date", "plannedWork", "actualWork", "remarks",
                     "status", "adminComments">>
     IN IF ~Truthy(q.employeeId) \/ ~Truthy(q.format)
        THEN Failed("adminExport", a, q, 400,
                    "Employee ID and format are required", "none")
        ELSE IF ~Castable(f)
        THEN Failed("adminExport", a, q, 500, "Failed to export timesheets",
                    "CastError")
        ELSE IF ~ok
        THEN Failed("adminExport", a, q, 500, "Failed to export timesheets",
                    "StoreFailure")
        ELSE IF q.format = "csv"
        THEN \E s \in Sorted(store, Find(store, f), -1) :
               Respond("adminExport", a, q, 200, "", "none", s,
                       ParseCsv(ShortFields,
                                [i \in DOMAIN s |-> AsJson(store, s[i])]))
        ELSE IF q.format = "pdf"
        THEN \E s \in Sorted(store, Find(store, f), -1) :
               Respond("adminExport", a, q, 200, "", "none", s,
                       [i \in DOMAIN s |->
                          PdfEntry(AsJson(store, s[i]), labels)])
        ELSE Failed("adminExport", a, q, 400, "Invalid format", "none")

(***************************************************************************)
(* Specification of the read paths: the handlers above over the stores the *)
(* lifecycle leaves behind.                                                *)
(***************************************************************************)
\* The (employee, date) pairs of the stored timesheets; the position in the
\* sequence is the _id.
ReadKeys ==
  <<[employee |-> "e1", date |-> "2024-03-01"],
    [employee |-> "e1", date |-> "2024-03-02"],
    [employee |-> "e2", date |-> "2024-03-01"]>>

\* What became of a timesheet: never created or deleted ("none"), created
\* and left alone, reviewed to accepted or rejected with comments " k ", or
\* reviewed with an empty body.
ReadShapes == {"none", "pending", "accepted", "rejected", "unset"}

StoredAs(key, shape) ==
  LET fresh == NewTimesheet(key.employee, ParseDate(key.date),
                 [plannedWork |-> <<"p">>, actualWork |-> <<"a">>,
                  remarks |-> <<"r">>, status |-> NoValue])
  IN CASE shape = "pending" -> fresh
       [] shape = "unset" ->
            [fresh EXCEPT !.status = NoValue, !.adminComments = NoText,
                          !.reviewedBy = "a1", !.reviewedAt = Now]
       [] OTHER ->
            [fresh EXCEPT !.status = shape, !.adminComments = <<"k">>,
                          !.reviewedBy = "a1", !.reviewedAt = Now]

ReadInit ==
  /\ users = AllUsers
  /\ \E c \in [DOMAIN ReadKeys -> ReadShapes] :
       store = [i \in {j \in DOMAIN ReadKeys : c[j] # "none"} |->
                  StoredAs(ReadKeys[i], c[i])]
  /\ nextId = Len(ReadKeys) + 1
  /\ inflight = EmptyBag
  /\ started = 0
  /\ last = NoResponse
  /\ removed = {}

ReadNext ==
  \/ \E u \in Employees, q \in ListQueries, ok \in BOOLEAN : List(u, q, ok)
  \/ \E u \in Employees, ok \in BOOLEAN : ExportCsv(u, ok)
  \/ \E u \in Employees, ok \in BOOLEAN : ExportPdf(u, ok)
  \/ \E u \in Employees, ok \in BOOLEAN : DownloadPdf(u, ok)
  \/ \E a \in Admins, q \in AdminQueries, ok \in BOOLEAN : AdminList(a, q, ok)
  \/ \E a \in Admins, q \in CsvQueries, ok \in BOOLEAN :
       AdminExportCsv(a, q, ok)
  \/ \E a \in Admins, q \in ExportQueries, ok \in BOOLEAN :
       AdminExport(a, q, ok)

ReadSpec == ReadInit /\ [][ReadNext]_vars

(***************************************************************************)
(* GET /api/admin/dashboard: five count queries, one after the other.      *)
(***************************************************************************)
\* Timesheet.countDocuments(filter); status NoValue is no filter at all.
CountDocuments(st, status) ==
  Cardinality(Find(st, Filter(NoValue, status, FALSE, 0, 0, NoValue)))

\* res.json({...}) of the dashboard; counts are the five numbers in the
\* order they were queried.
ReplyCounts(r, counts) ==
  /\ inflight' = Without(r)
  /\ last' = [op |-> r.op, user |-> r.user, id |-> 0, date |-> 0,
              target |-> NoValue, code |-> 200, msg |-> "", err |-> "none",
              body |-> [totalTimesheets |-> counts[1],
                        pending |-> counts[2],
                        accepted |-> counts[3],
                        rejected |-> counts[4],
                        totalEmployees |-> counts[5]]]

\* countDocuments().
DashboardTotal(a, ok) ==
  /\ started < MaxRequests
  /\ AdminAuth(a)
  /\ started' = started + 1
  /\ UNCHANGED <<users, store, nextId, removed>>
  /\ LET r == NewReq("dashboard", a, 0, 0, NoValue)
     IN IF ~ok
        THEN Reply(r, 0, 500, "Server error", "StoreFailure")
        ELSE Proceed(r, "pending", <<CountDocuments(store, NoValue)>>)

\* countDocuments({status: 'pending'}).
DashboardPending(r, ok) ==
  /\ BagIn(r, inflight)
  /\ r.op = "dashboard" /\ r.pc = "pending"
  /\ UNCHANGED <<users, store, nextId, started, removed>>
  /\ IF ~ok
     THEN Reply(r, 0, 500, "Server error", "StoreFailure")
     ELSE Proceed(r, "accepted",
                  Append(r.loaded, CountDocuments(store, "pending")))

\* countDocuments({status: 'accepted'}).
DashboardAccepted(r, ok) ==
  /\ BagIn(r, inflight)
  /\ r.op = "dashboard" /\ r.pc = "accepted"
  /\ UNCHANGED <<users, store, nextId, started, removed>>
  /\ IF ~ok
     THEN Reply(r, 0, 500, "Server error", "StoreFailure")
     ELSE Proceed(r, "rejected",
                  Append(r.loaded, CountDocuments(store, "accepted")))

\* countDocuments({status: 'rejected'}).
DashboardRejected(r, ok) ==
  /\ BagIn(r, inflight)
  /\ r.op = "dashboard" /\ r.pc = "rejected"
  /\ UNCHANGED <<users, store, nextId, started, removed>>
  /\ IF ~ok
     THEN Reply(r, 0, 500, "Server error", "StoreFailure")
     ELSE Proceed(r, "employees",
                  Append(r.loaded, CountDocuments(store, "rejected")))

\* User.countDocuments({role: 'employee'}) and the response.
DashboardEmployees(r, ok) ==
  /\ BagIn(r, inflight)
  /\ r.op = "dashboard" /\ r.pc = "employees"
  /\ UNCHANGED <<users, store, nextId, started, removed>>
  /\ IF ~ok
     THEN Reply(r, 0, 500, "Server error", "StoreFailure")
     ELSE ReplyCounts(r, Append(r.loaded,
            Cardinality({u \in users : Role(u) = "employee"})))

\* The lifecycle together with the dashboard.
DashboardNext ==
  \/ Next
  \/ \E a \in Admins, ok \in BOOLEAN : DashboardTotal(a, ok)
  \/ \E r \in BagToSet(inflight), ok \in BOOLEAN : DashboardPending(r, ok)
  \/ \E r \in BagToSet(inflight), ok \in BOOLEAN : DashboardAccepted(r, ok)
  \/ \E r \in BagToSet(inflight), ok \in BOOLEAN : DashboardRejected(r, ok)
  \/ \E r \in BagToSet(inflight), ok \in BOOLEAN : DashboardEmployees(r, ok)

DashboardSpec == Init /\ [][DashboardNext]_vars

(***************************************************************************)
(* Properties.  A step property names the handler step it is about; the    *)
(* argument TRUE says that the step's store operation went through.        *)
(***************************************************************************)
Owns(st, u) == \E id \in DOMAIN st : st[id].employee = u

DuplicateMsg == "Timesheet already exists for this date"

\* C1: in every reachable state, whatever the interleaving of the requests,
\* the store holds at most one timesheet for each (employee, date) pair.
UniqueIndexInv == UniqueIndex(store)

\* Two timesheets are stored and a further Create for a stored pair was
\* turned down.
UniqueIndexWitness ==
  /\ Cardinality(DOMAIN store) >= 2
  /\ last.op = "create" /\ last.code # 201
  /\ HasKey(store, last.user, last.date)

\* C2: a Create that arrives while a timesheet for its (employee, date) pair
\* is stored is answered 400 with the duplicate-date message, and neither
\* the store nor the requests in flight change.
SecondCreateConflicts ==
  [][\A u \in AllUsers, ds \in DateInputs :
       (CreateFind(u, ds, TRUE) /\ HasKey(store, u, ParseDate(ds)))
         => /\ last'.op = "create" /\ last'.user = u
            /\ last'.code = 400 /\ last'.msg = DuplicateMsg
            /\ store' = store
            /\ inflight' = inflight]_vars

SecondCreateWitness ==
  /\ last.op = "create" /\ last.code = 400 /\ last.msg = DuplicateMsg
  /\ HasKey(store, last.user, last.date)

\* C3: a Create whose save is refused by the unique index (the other
\* request of the race saved first) ends like one refused by the pre-check:
\* 400 with the duplicate-date message; and one timesheet is stored.
RaceLoserConflicts ==
  (last.op = "create" /\ last.err = "E11000")
    => /\ last.code = 400 /\ last.msg = DuplicateMsg
       /\ UniqueIndex(store)

\* C4: while a timesheet is accepted, an Update and a Delete by its owner
\* are both answered 400 and change nothing in the store.
AcceptedIsFrozen ==
  [][\A u \in AllUsers, id \in Ids :
       (id \in DOMAIN store /\ store[id].employee = u
          /\ store[id].status = "accepted")
         => /\ UpdateFind(u, id, TRUE)
                 => /\ last'.op = "update" /\ last'.user = u /\ last'.id = id
                    /\ last'.code = 400
                    /\ last'.msg
                         = "Only pending or rejected timesheets can be edited"
                    /\ store' = store /\ inflight' = inflight
            /\ DeleteFind(u, id, TRUE)
                 => /\ last'.op = "delete" /\ last'.user = u /\ last'.id = id
                    /\ last'.code = 400
                    /\ last'.msg = "Only pending timesheets can be deleted"
                    /\ store' = store /\ inflight' = inflight]_vars

AcceptedIsFrozenWitness ==
  /\ last.op = "update" /\ last.code = 400
  /\ last.id \in DOMAIN store
  /\ store[last.id].employee = last.user
  /\ store[last.id].status = "accepted"

\* A Review request r saves with body b onto the document it read: the
\* document is stored and no other request wrote it since r read it.
ReviewOf(r, b) ==
  /\ ReviewSave(r, b, TRUE)
  /\ b.status \in Statuses
  /\ r.id \in DOMAIN store
  /\ store[r.id] = r.loaded[1]

DeletedIsGone ==
  [][/\ \A u \in AllUsers, id \in Ids :
          (DeleteFind(u, id, TRUE) /\ id \in DOMAIN store
             /\ store[id].employee = u
             /\ Hydrate(store[id]).status = "pending")
            => inflight' = inflight (+) SetToBag(
                 {[NewReq("delete", u, id, 0, NoValue) EXCEPT !.pc = "remove"]})
     /\ \A r \in BagToSet(inflight) :
          DeleteRemove(r, TRUE)
            => /\ last'.op = "delete" /\ last'.id = r.id /\ last'.code = 200
               /\ r.id \notin DOMAIN store'
     /\ \A id \in 1 .. (nextId - 1) :
          id \notin DOMAIN store => id \notin DOMAIN store'
     /\ \A u \in AllUsers, id \in Ids :
          (id \notin DOMAIN store
             /\ (UpdateFind(u, id, TRUE) \/ DeleteFind(u, id, TRUE)
                   \/ ReviewFind(u, id, TRUE)))
            => /\ last'.user = u /\ last'.id = id
               /\ last'.code = 404 /\ last'.msg = "Timesheet not found"
               /\ store' = store /\ inflight' = inflight]_vars

\* The owner's Delete was answered 200 and its timesheet is not stored.
DeletedIsGoneWitness ==
  /\ last.op = "delete" /\ last.code = 200
  /\ last.id \in 1 .. (nextId - 1)
  /\ last.id \notin DOMAIN store
  /\ last.user \in users

\* C7: a Create stores its timesheet as pending whatever the body carries,
\* and a successful Update leaves the stored status, adminComments,
\* reviewedBy and reviewedAt of the timesheet exactly as they were.
EmployeeNeverSetsStatus ==
  [][/\ \A r \in BagToSet(inflight), b \in Bodies :
          (CreateSave(r, b, TRUE) /\ last'.code = 201)
            => /\ last'.id \in DOMAIN store' \ DOMAIN store
               /\ store'[last'.id].status = "pending"
               /\ store'[last'.id].reviewedBy = NoValue
     /\ \A r \in BagToSet(inflight), b \in Bodies :
          (UpdateSave(r, b, TRUE) /\ last'.code = 200)
            => /\ r.id \in DOMAIN store /\ r.id \in DOMAIN store'
               /\ store'[r.id].status = store[r.id].status
               /\ store'[r.id].adminComments = store[r.id].adminComments
               /\ store'[r.id].reviewedBy = store[r.id].reviewedBy
               /\ store'[r.id].reviewedAt = store[r.id].reviewedAt]_vars

\* C8: an Update or a Delete by an authenticated user who does not own the
\* timesheet is answered 404, whatever its status, and changes nothing.
NotOwnerNotFound ==
  [][\A u \in AllUsers, id \in Ids :
       (id \in DOMAIN store /\ store[id].employee # u
          /\ (UpdateFind(u, id, TRUE) \/ DeleteFind(u, id, TRUE)))
         => /\ last'.user = u /\ last'.id = id
            /\ last'.op \in {"update", "delete"}
            /\ last'.code = 404 /\ last'.msg = "Timesheet not found"
            /\ store' = store /\ inflight' = inflight]_vars

NotOwnerNotFoundWitness ==
  /\ last.op = "delete" /\ last.code = 404
  /\ last.id \in DOMAIN store
  /\ store[last.id].employee # last.user
  /\ store[last.id].status = "pending"

\* C9: once the deletion of an employee was answered with success, the
\* store holds no timesheet of that employee.
NoSheetsOfRemoved == \A t \in removed : ~Owns(store, t)

\* C10: when deleteMany fails after the account was deleted, the request
\* is answered 500 and is over, the account stays deleted and the store is
\* as it was with the employee's timesheets in it; no account ever comes
\* back.
NoCompensation ==
  [][/\ users' \subseteq users
     /\ \A r \in BagToSet(inflight) :
          DeleteEmployeeSheets(r, FALSE)
            => /\ last'.op = "deleteEmployee" /\ last'.target = r.target
               /\ last'.code = 500 /\ last'.msg = "Server error"
               /\ r.target \notin users'
               /\ store' = store
               /\ inflight' = inflight (-) SetToBag({r})]_vars

NoCompensationWitness ==
  /\ last.op = "deleteEmployee" /\ last.code = 500
  /\ last.target \notin users
  /\ Owns(store, last.target)
  /\ \A q \in BagToSet(inflight) : q.op # "deleteEmployee"

\* C11: a Create whose plannedWork or actualWork is missing or empty stores
\* nothing and is answered 400, not 500.
BlankWorkIsBadInput ==
  [][\A r \in BagToSet(inflight), b \in Bodies :
       (CreateSave(r, b, TRUE)
          /\ ~(Required(Trim(b.plannedWork)) /\ Required(Trim(b.actualWork))))
         => /\ last'.op = "create" /\ last'.code = 400
            /\ store' = store]_vars

\* C16: an Update never writes its texts into a timesheet that is stored as
\* accepted, also when a Review saved between the Update's read and its
\* save.
EditOnlyWhileEditable ==
  [][\A r \in BagToSet(inflight), b \in Bodies :
       (UpdateSave(r, b, TRUE) /\ r.id \in DOMAIN store
          /\ store[r.id].status = "accepted")
         => /\ last'.code # 200
            /\ store' = store]_vars

\* C17: a Delete never removes a timesheet that is stored as accepted or
\* rejected, also when a Review saved between the Delete's read and its
\* removal.
DeleteOnlyWhilePending ==
  [][\A r \in BagToSet(inflight) :
       (DeleteRemove(r, TRUE) /\ r.id \in DOMAIN store
          /\ store[r.id].status \in {"accepted", "rejected"})
         => /\ last'.code # 200
            /\ store' = store]_vars

\* C18: every stored timesheet has a status among pending, accepted and
\* rejected, and a Review whose body carries another status, or none, is
\* not answered 200 and leaves the store as it was.
StatusInEnum ==
  [][/\ \A id \in DOMAIN store' : store'[id].status \in Statuses
     /\ \A r \in BagToSet(inflight), b \in ReviewBodies :
          (ReviewSave(r, b, TRUE) /\ b.status \notin Statuses)
            => /\ last'.code # 200
               /\ store' = store]_vars

\* C19: a Review that is answered 200 leaves employee, employeeName, date,
\* plannedWork, actualWork and remarks of the stored timesheet exactly as
\* they were, and a Review of an id that is not stored is answered 404 and
\* changes nothing.
ReviewFrame ==
  [][/\ \A r \in BagToSet(inflight), b \in ReviewBodies :
          (ReviewSave(r, b, TRUE) /\ last'.code = 200)
            => /\ r.id \in DOMAIN store /\ r.id \in DOMAIN store'
               /\ \A f \in {"employee", "employeeName", "date",
                            "plannedWork", "actualWork", "remarks"} :
                    store'[r.id][f] = store[r.id][f]
               /\ \A id \in DOMAIN store \ {r.id} :
                    id \in DOMAIN store' /\ store'[id] = store[id]
     /\ \A a \in Admins, id \in Ids :
          (ReviewFind(a, id, TRUE) /\ id \notin DOMAIN store)
            => /\ last'.op = "review" /\ last'.code = 404
               /\ last'.msg = "Timesheet not found"
               /\ store' = store /\ inflight' = inflight]_vars

\* A timesheet as Create leaves it: pending, no reviewer, no review time.
Unreviewed(doc) ==
  /\ doc.status = "pending"
  /\ doc.reviewedBy = NoValue
  /\ doc.reviewedAt = NoValue

\* C20: every stored timesheet that is accepted or rejected has reviewedBy
\* and reviewedAt set; a timesheet is stored first as pending with neither
\* set, and stays so until a Review of it is answered 200.
ReviewedHasReviewer ==
  [][/\ \A id \in DOMAIN store' :
          store'[id].status \in {"accepted", "rejected"}
            => /\ store'[id].reviewedBy # NoValue
               /\ store'[id].reviewedAt # NoValue
     /\ \A id \in DOMAIN store' \ DOMAIN store : Unreviewed(store'[id])
     /\ \A id \in DOMAIN store \cap DOMAIN store' :
          (Unreviewed(store[id]) /\ ~Unreviewed(store'[id]))
            => \E r \in BagToSet(inflight), b \in ReviewBodies :
                 /\ ReviewSave(r, b, TRUE)
                 /\ r.id = id /\ last'.code = 200]_vars

\* An accepted timesheet with its reviewer and review time is stored next
\* to one that was never reviewed.
ReviewedHasReviewerWitness ==
  \E i, j \in DOMAIN store :
    /\ store[i].status = "accepted"
    /\ store[i].reviewedBy \in Admins
    /\ store[i].reviewedAt = Now
    /\ Unreviewed(store[j])

(***************************************************************************)
(* Properties of the read paths, under ReadSpec.                           *)
(***************************************************************************)
EmployeeReads == {"list", "exportCsv", "exportPdf", "downloadPdf"}

\* C12: every timesheet an employee-tier read returns (list, CSV export,
\* PDF export, download-pdf) is owned by the requester, whatever the query
\* string carries.
ReadsAreScoped ==
  (last.op \in EmployeeReads /\ last.code = 200)
    => /\ \A i \in DOMAIN last.found :
            /\ last.found[i] \in DOMAIN store
            /\ store[last.found[i]].employee = last.user
       /\ last.op = "list"
            => /\ Len(last.body) = Len(last.found)
               /\ \A i \in DOMAIN last.body :
                    /\ last.body[i]._id = last.found[i]
                    /\ last.body[i].employee = last.user

\* e1 listed with employee=e2 in the query string and got timesheets,
\* while a pending timesheet of e2 is stored.
ReadsAreScopedWitness ==
  /\ last.op = "list" /\ last.code = 200 /\ last.user = "e1"
  /\ last.query.employee = "e2"
  /\ Len(last.found) >= 1
  /\ \E id \in DOMAIN store :
       store[id].employee = "e2" /\ store[id].status = last.query.status

\* The timesheets a list request asks for, among those visible to it: the
\* status filter and, when both bounds are supplied, the date range.
Asked(visible, q) ==
  {id \in visible :
     /\ (Truthy(q.status) /\ q.status # "all")
          => store[id].status = q.status
     /\ (Truthy(q.startDate) /\ Truthy(q.endDate))
          => /\ ParseDate(q.startDate) <= store[id].date
             /\ store[id].date <= ParseDate(q.endDate)}

DatesUsable(q) ==
  (Truthy(q.startDate) /\ Truthy(q.endDate))
    => (ParseDate(q.startDate) # InvalidDate
          /\ ParseDate(q.endDate) # InvalidDate)

IsListOf(found, S) ==
  /\ Len(found) = Cardinality(S)
  /\ {found[i] : i \in DOMAIN found} = S

\* C13: a list request (employee or admin) returns exactly the timesheets
\* visible to the caller that have the requested status and, when
\* startDate and endDate are both supplied, a date between them, bounds
\* included; with one bound alone the dates are not restricted.
DateRangeFilter ==
  (last.op \in {"list", "adminList"})
    => /\ (DatesUsable(last.query) /\ last.err # "StoreFailure")
            => last.code = 200
       /\ (last.op = "list" /\ last.code = 200)
            => IsListOf(last.found,
                 Asked({id \in DOMAIN store : store[id].employee = last.user},
                       last.query))
       /\ (last.op = "adminList" /\ last.code = 200)
            => IsListOf(last.found,
                 Asked({id \in DOMAIN store :
                          /\ (Truthy(last.query.employee)
                                /\ last.query.employee # "all")
                               => store[id].employee = last.query.employee
                          /\ Truthy(last.query.search)
                               => \/ RegexMatch(store[id].employeeName,
                                                last.query.search)
                                  \/ RegexMatch(store[id].plannedWork,
                                                last.query.search)
                                  \/ RegexMatch(store[id].actualWork,
                                                last.query.search)},
                       last.query))

\* A list from 2024-03-01 to 2024-03-01 returned the caller's timesheet of
\* that day and not the caller's timesheet of the day after.
DateRangeFilterWitness ==
  /\ last.op = "list" /\ last.code = 200
  /\ last.query.startDate = "2024-03-01"
  /\ last.query.endDate = "2024-03-01"
  /\ Len(last.found) = 1
  /\ store[last.found[1]].date = ParseDate("2024-03-01")
  /\ \E id \in DOMAIN store :
       /\ store[id].employee = last.user
       /\ store[id].date = ParseDate("2024-03-02")

\* The year-month of a date.
MonthString(d) == IF d \in {19783, 19784} THEN "2024-03" ELSE "Invalid Date"

\* C14: the admin CSV export returns exactly the timesheets that match the
\* filters of its query string: employee, startDate..endDate, date, month.
AdminCsvHonoursFilters ==
  [][\A a \in Admins, q \in CsvQueries :
       AdminExportCsv(a, q, TRUE)
         => /\ last'.code = 200
            /\ IsListOf(last'.found,
                 {id \in DOMAIN store :
                    /\ (Truthy(q.employee) /\ q.employee # "all")
                         => store[id].employee = q.employee
                    /\ (Truthy(q.startDate) /\ Truthy(q.endDate))
                         => /\ ParseDate(q.startDate) <= store[id].date
                            /\ store[id].date <= ParseDate(q.endDate)
                    /\ Truthy(q.date) => store[id].date = ParseDate(q.date)
                    /\ Truthy(q.month)
                         => MonthString(store[id].date) = q.month})]_vars

ClaimedHeader ==
  <<"employeeName", "employeeEmail", "employeeId", "department", "date",
    "plannedWork", "actualWork", "remarks", "status", "adminComments">>

\* C15: every CSV export of N timesheets is the ten-column header followed
\* by N rows.
CsvShape ==
  (/\ last.code = 200
   /\ \/ last.op \in {"exportCsv", "adminExportCsv"}
      \/ last.op = "adminExport" /\ last.query.format = "csv")
    => /\ Len(last.body) = Len(last.found) + 1
       /\ last.body[1] = ClaimedHeader
       /\ \A i \in 2 .. Len(last.body) : Len(last.body[i]) = Len(ClaimedHeader)

(***************************************************************************)
(* Properties of the dashboard, under DashboardSpec.                       *)
(***************************************************************************)
\* C21: in every dashboard response the total is the sum of the pending,
\* accepted and rejected counts, whatever ran between the count queries.
DashboardConsistent ==
  (last.op = "dashboard" /\ last.code = 200)
    => last.body.totalTimesheets
         = last.body.pending + last.body.accepted + last.body.rejected

(***************************************************************************)
(* Properties of the lifecycle, under Spec (continued).                    *)
(***************************************************************************)
\* C22: no step changes employee, employeeName or date of a timesheet that
\* stays stored, and an _id is never given to a second timesheet; so no
\* timesheet moves onto the (employee, date) pair of another.
KeyIsImmutable ==
  [][/\ \A id \in DOMAIN store \cap DOMAIN store' :
          /\ store'[id].employee = store[id].employee
          /\ store'[id].employeeName = store[id].employeeName
          /\ store'[id].date = store[id].date
     /\ \A id \in DOMAIN store' \ DOMAIN store : id = nextId /\ nextId' > id]_vars

\* A timesheet was reviewed to rejected and then edited by its owner, and
\* is stored under its owner, its owner's name and its day.
KeyIsImmutableWitness ==
  /\ last.op = "update" /\ last.code = 200
  /\ last.id \in DOMAIN store
  /\ store[last.id].status = "rejected"
  /\ store[last.id].reviewedBy \in Admins
  /\ store[last.id].plannedWork = <<"q">>
  /\ store[last.id].employee = last.user
  /\ store[last.id].employeeName = UserName(last.user)
  /\ store[last.id].date \in {ParseDate("2024-03-01"), ParseDate("2024-03-02")}

====
